---- MODULE Spec2Model ----
(***************************************************************************)
(* Model of tools/virtio/ringtest/ring.c: a descriptor ring shared by a    *)
(* guest (producer) and a host (consumer), with virtio 0.9 style event     *)
(* index signalling.                                                       *)
(*                                                                         *)
(* Number representation.  The ring indices are C "unsigned" (32 bit).     *)
(* They are kept here as unreduced integers: the model never counts up to  *)
(* 2^32, and the initial value (unsigned)-1 of kicked_avail_idx and        *)
(* called_used_idx is kept as -1, a representative of 2^32-1.  The only    *)
(* uses of these two fields are the conversions to unsigned short at the   *)
(* calls of need_event, and 2^16 divides 2^32, so U16 of the               *)
(* representative is the value the C conversion yields.  desc.len is an    *)
(* "unsigned" that the host decrements, also from 0; it is kept as a pair  *)
(* <<high 16 bits, low 16 bits>>.                                          *)
(***************************************************************************)
EXTENDS Integers, Sequences, FiniteSets, TLC

VARIABLES
    ring_size,   \* main.h: number of descriptors, a power of two
    ring,        \* struct desc *ring : [0..ring_size-1 -> desc]
    data,        \* struct data *data : the shadow table
    event,       \* struct event *event : kick_index, call_index
    guest,       \* struct guest guest
    host,        \* struct host host
    last,        \* the last call made and what it returned
    published,   \* history: the successful add_inbuf calls, in order, each
                 \*   [tag, head, flags written, whether guest.wrap flipped]
    returned,    \* history: non-NULL tags returned by get_buf, in order
    flips,       \* history: number of times guest.wrap changed
    overcap,     \* history: more than ring_size buffers were outstanding once
    spurious,    \* history: get_buf once took a slot no completed buffer was in
    scen,        \* history: position in the end-to-end call script, -1 if left
    scenLog,     \* history: what the calls of the script returned
    start,       \* history: buffers that went round before the run explored
    mon,         \* history: signals sent, in all and since each arm call
    fine,        \* where the guest and the host thread are inside their calls,
                 \*   what they hold in locals, and the signals pending
    ne           \* the arguments and results of need_event, for its own checks

ringVars == <<ring_size, ring, data, event, guest, host>>
histVars == <<last, published, returned, flips, overcap, spurious, scen,
              scenLog, start, mon>>
vars == <<ringVars, histVars, ne, fine>>

----------------------------------------------------------------------------
(* Bounds of the model *)

\* successful add_inbuf calls explored from alloc_ring
MaxPub == 8
\* how far get_buf may run ahead of guest.avail_idx
MaxAhead == 1

\* successful add_inbuf calls explored in a run with notification calls
MaxPubN == 2
\* index advances fed to need_event in a row
MaxSteps == 3

\* ring sizes explored (powers of two, as main.c requires)
RingSizes == {1, 2, 4}
\* lengths passed to add_inbuf (main.c passes 0), as <<high, low>> halves
Lens == {<<0, 0>>}

----------------------------------------------------------------------------
(* Program constants and arithmetic *)

DESC_HW == 128
DESC_WRAP == 64
\* number of values of an unsigned short
USHORT_RANGE == 65536
NULL == 0

RECURSIVE BitAnd(_, _)
\* a & b on non-negative integers
BitAnd(a, b) ==
    IF a = 0 \/ b = 0 THEN 0
    ELSE (a % 2) * (b % 2) + 2 * BitAnd(a \div 2, b \div 2)

\* a | b for the flag bits
BitOr(a, b) == a + b - BitAnd(a, b)

\* conversion of an unsigned index to the unsigned short parameter of need_event
U16(x) == x % USHORT_RANGE

\* (unsigned short) of the int expressions in need_event, whose operands are
\* unsigned shorts promoted to int: one wrap at most in either direction
ToUShort(x) ==
    IF x < 0 THEN x + USHORT_RANGE
    ELSE IF x >= USHORT_RANGE THEN x - USHORT_RANGE
    ELSE x

\* need_event with the "- 1" forgotten
need_event_nominus(ev, next, prev) ==
    ToUShort(next - ev) < ToUShort(next - prev)

\* need_event with "<=" for "<"
need_event_le(ev, next, prev) ==
    ToUShort(next - ev - 1) <= ToUShort(next - prev)

\* need_event with the casts to unsigned short forgotten
need_event_signed(ev, next, prev) ==
    (next - ev - 1) < (next - prev)

need_event(ev, next, prev) ==
    ToUShort(next - ev - 1) < ToUShort(next - prev)

\* len-- on a 32 bit unsigned kept as <<high, low>>
Dec32(l) ==
    IF l[2] > 0 THEN <<l[1], l[2] - 1>>
    ELSE <<(l[1] + USHORT_RANGE - 1) % USHORT_RANGE, USHORT_RANGE - 1>>

\* the buffer handle passed with a tag
BufOf(tag) == 1000 + tag

IsPrefix(s, t) == Len(s) <= Len(t) /\ SubSeq(t, 1, Len(s)) = s

----------------------------------------------------------------------------
(* The program state as one record, and the operations on it *)

Cur == [ring |-> ring, data |-> data, event |-> event,
        guest |-> guest, host |-> host]

alloc_ring(n) ==
    [ring  |-> [i \in 0..(n - 1) |->
                  [addr |-> 0, len |-> <<0, 0>>, index |-> i, flags |-> 0]],
     data  |-> [i \in 0..(n - 1) |-> [buf |-> NULL, data |-> NULL]],
     event |-> [kick_index |-> 0, call_index |-> 0],
     guest |-> [wrap |-> 64, avail_idx |-> 0, last_used_idx |-> 0,
                num_free |-> n, kicked_avail_idx |-> -1],
     host  |-> [wrap |-> 64, used_idx |-> 0, called_used_idx |-> -1]]

\* ToggleWrap with the second branch lost: the bit is cleared and stays clear
ToggleWrap_stuck(w) ==
    IF w = DESC_WRAP THEN 0
    ELSE w

\* the toggle both sides apply to their wrap field at slot 0
ToggleWrap(w) ==
    IF w = DESC_WRAP THEN 0
    ELSE IF w = 0 THEN DESC_WRAP
    ELSE w

\* add_inbuf that counts the slot before it tests for a full ring
add_inbuf_countfirst(s, len, buf, datap) ==
    IF s.guest.num_free = 0
    THEN [s |-> [s EXCEPT !.guest.avail_idx = @ + 1], ret |-> -1, head |-> -1]
    ELSE
      LET head  == BitAnd(ring_size - 1, s.guest.avail_idx)
          wrap  == IF head = 0 THEN ToggleWrap(s.guest.wrap) ELSE s.guest.wrap
          index == s.ring[head].index
      IN [s |-> [s EXCEPT
                   !.guest.num_free = @ - 1,
                   !.guest.avail_idx = @ + 1,
                   !.guest.wrap = wrap,
                   !.ring[head].addr = buf,
                   !.ring[head].len = len,
                   !.data[index] = [buf |-> buf, data |-> datap],
                   !.ring[head].flags = BitOr(DESC_HW, wrap)],
          ret |-> 0, head |-> head]

add_inbuf(s, len, buf, datap) ==
    IF s.guest.num_free = 0
    THEN [s |-> s, ret |-> -1, head |-> -1]
    ELSE
      LET head  == BitAnd(ring_size - 1, s.guest.avail_idx)
          wrap  == IF head = 0 THEN ToggleWrap(s.guest.wrap) ELSE s.guest.wrap
          index == s.ring[head].index
      IN [s |-> [s EXCEPT
                   !.guest.num_free = @ - 1,
                   !.guest.avail_idx = @ + 1,
                   !.guest.wrap = wrap,
                   !.ring[head].addr = buf,
                   !.ring[head].len = len,
                   !.data[index] = [buf |-> buf, data |-> datap],
                   !.ring[head].flags = BitOr(DESC_HW, wrap)],
          ret |-> 0, head |-> head]

\* get_buf that forgets to give the slot back to the free count
get_buf_nofree(s) ==
    LET head == BitAnd(ring_size - 1, s.guest.last_used_idx)
    IN IF BitAnd(s.ring[head].flags, DESC_HW) # 0
       THEN [s |-> s, ret |-> NULL, len |-> <<0, 0>>, buf |-> NULL,
             flags |-> 0, done |-> FALSE]
       ELSE
         LET index == BitAnd(s.ring[head].index, ring_size - 1)
         IN [s |-> [s EXCEPT
                      !.data[index] = [buf |-> NULL, data |-> NULL],
                      !.guest.last_used_idx = @ + 1],
             ret |-> s.data[index].data,
             len |-> s.ring[head].len,
             buf |-> s.data[index].buf,
             flags |-> s.ring[head].flags,
             done |-> TRUE]

\* get_buf that gives the slot back without moving its cursor
get_buf_nocursor(s) ==
    LET head == BitAnd(ring_size - 1, s.guest.last_used_idx)
    IN IF BitAnd(s.ring[head].flags, DESC_HW) # 0
       THEN [s |-> s, ret |-> NULL, len |-> <<0, 0>>, buf |-> NULL,
             flags |-> 0, done |-> FALSE]
       ELSE
         LET index == BitAnd(s.ring[head].index, ring_size - 1)
         IN [s |-> [s EXCEPT
                      !.data[index] = [buf |-> NULL, data |-> NULL],
                      !.guest.num_free = @ + 1],
             ret |-> s.data[index].data,
             len |-> s.ring[head].len,
             buf |-> s.data[index].buf,
             flags |-> s.ring[head].flags,
             done |-> TRUE]

get_buf(s) ==
    LET head == BitAnd(ring_size - 1, s.guest.last_used_idx)
    IN IF BitAnd(s.ring[head].flags, DESC_HW) # 0
       THEN [s |-> s, ret |-> NULL, len |-> <<0, 0>>, buf |-> NULL,
             flags |-> 0, done |-> FALSE]
       ELSE
         LET index == BitAnd(s.ring[head].index, ring_size - 1)
         IN [s |-> [s EXCEPT
                      !.data[index] = [buf |-> NULL, data |-> NULL],
                      !.guest.num_free = @ + 1,
                      !.guest.last_used_idx = @ + 1],
             ret |-> s.data[index].data,
             len |-> s.ring[head].len,
             buf |-> s.data[index].buf,
             flags |-> s.ring[head].flags,
             done |-> TRUE]

used_empty(s) ==
    LET head == BitAnd(ring_size - 1, s.guest.last_used_idx)
    IN /\ BitAnd(s.ring[head].flags, DESC_HW) # 0
       /\ BitAnd(s.ring[head].flags, DESC_WRAP) = s.host.wrap

avail_empty(s) ==
    LET head == BitAnd(ring_size - 1, s.host.used_idx)
    IN BitAnd(s.ring[head].flags, DESC_HW) = 0

\* use_buf that gives the slot back to the guest's free count itself
use_buf_freesslot(s) ==
    LET head == BitAnd(ring_size - 1, s.host.used_idx)
        wrap == IF head = 0 THEN ToggleWrap(s.host.wrap) ELSE s.host.wrap
        t    == [s EXCEPT !.host.wrap = wrap]
    IN IF BitAnd(s.ring[head].flags, DESC_HW) = 0
       THEN [s |-> t, ret |-> FALSE, flags |-> 0]
       ELSE IF BitAnd(s.ring[head].flags, DESC_WRAP) # wrap
       THEN [s |-> t, ret |-> FALSE, flags |-> 0]
       ELSE [s |-> [t EXCEPT
                      !.ring[head].len = Dec32(@),
                      !.ring[head].flags = IF wrap # 0 THEN DESC_WRAP ELSE 0,
                      !.host.used_idx = @ + 1,
                      !.guest.num_free = @ + 1],
             ret |-> TRUE,
             flags |-> s.ring[head].flags]

use_buf(s) ==
    LET head == BitAnd(ring_size - 1, s.host.used_idx)
        wrap == IF head = 0 THEN ToggleWrap(s.host.wrap) ELSE s.host.wrap
        t    == [s EXCEPT !.host.wrap = wrap]
    IN IF BitAnd(s.ring[head].flags, DESC_HW) = 0
       THEN [s |-> t, ret |-> FALSE, flags |-> 0]
       ELSE IF BitAnd(s.ring[head].flags, DESC_WRAP) # wrap
       THEN [s |-> t, ret |-> FALSE, flags |-> 0]
       ELSE [s |-> [t EXCEPT
                      !.ring[head].len = Dec32(@),
                      !.ring[head].flags = IF wrap # 0 THEN DESC_WRAP ELSE 0,
                      !.host.used_idx = @ + 1],
             ret |-> TRUE,
             flags |-> s.ring[head].flags]

\* disable_call and disable_kick have empty bodies
disable_call(s) == s

disable_kick(s) == s

enable_call(s) ==
    LET t == [s EXCEPT !.event.call_index = U16(s.guest.last_used_idx)]
    IN [s |-> t, ret |-> used_empty(t)]

kick_available(s) ==
    IF ~need_event(s.event.kick_index, U16(s.guest.avail_idx),
                   U16(s.guest.kicked_avail_idx))
    THEN [s |-> s, fired |-> FALSE]
    ELSE [s |-> [s EXCEPT !.guest.kicked_avail_idx = s.guest.avail_idx],
          fired |-> TRUE]

enable_kick(s) ==
    LET t == [s EXCEPT !.event.kick_index = U16(s.host.used_idx)]
    IN [s |-> t, ret |-> avail_empty(t)]

call_used(s) ==
    IF ~need_event(s.event.call_index, U16(s.host.used_idx),
                   U16(s.host.called_used_idx))
    THEN [s |-> s, fired |-> FALSE]
    ELSE [s |-> [s EXCEPT !.host.called_used_idx = s.host.used_idx],
          fired |-> TRUE]

Set(s) ==
    /\ ring' = s.ring
    /\ data' = s.data
    /\ event' = s.event
    /\ guest' = s.guest
    /\ host' = s.host
    /\ UNCHANGED ring_size

----------------------------------------------------------------------------
(* History kept beside the program state *)

\* the end-to-end script is a sequence of calls; what they return is logged
Script == <<"add_inbuf", "add_inbuf", "add_inbuf", "add_inbuf", "add_inbuf",
            "use_buf", "get_buf", "add_inbuf">>

ScenStep(op, ret) ==
    IF scen = -1 THEN UNCHANGED <<scen, scenLog>>
    ELSE IF scen < Len(Script)
    THEN IF Script[scen + 1] = op
         THEN scen' = scen + 1 /\ scenLog' = Append(scenLog, ret)
         ELSE scen' = -1 /\ scenLog' = <<>>
    ELSE IF op \in {"use_buf", "get_buf"}
         THEN UNCHANGED <<scen, scenLog>>
         ELSE scen' = -1 /\ scenLog' = <<>>

\* what is known of one direction's notifications since its last arm call
NoArm == [armed |-> FALSE, ret |-> FALSE, work |-> 0, fired |-> 0,
          asked |-> FALSE]

\* both threads between calls, nothing signalled
NoFine == [gpc |-> "idle", hpc |-> "idle", gtmp |-> 0, htmp |-> 0,
           kick |-> FALSE, call |-> FALSE]

NoMon == [kicks |-> 0, calls |-> 0, ak |-> NoArm, ac |-> NoArm, poll |-> 0]

\* the calls of one polling round, in order
PollScript == <<"add_inbuf", "kick_available", "use_buf", "call_used",
                "get_buf">>

\* one more buffer for the armed side to be told of
ArmWork(m) ==
    IF m.armed THEN [m EXCEPT !.work = @ + 1] ELSE m

\* the notify call of the other side ran, and signalled or not
PollNext(op, ok) ==
    IF mon.poll = -1 THEN -1
    ELSE IF PollScript[(mon.poll % 5) + 1] = op /\ ok THEN mon.poll + 1
    ELSE -1

ArmAsk(m, fired) ==
    IF m.armed
    THEN [m EXCEPT !.asked = (@ \/ m.work >= 1),
                   !.fired = IF fired THEN @ + 1 ELSE @]
    ELSE m

MonNext(op, ret, ok, fired) ==
    [kicks |-> IF op = "kick_available" /\ fired THEN mon.kicks + 1
               ELSE mon.kicks,
     calls |-> IF op = "call_used" /\ fired THEN mon.calls + 1
               ELSE mon.calls,
     ak |-> IF op = "enable_kick"
            THEN [armed |-> TRUE, ret |-> ret, work |-> 0, fired |-> 0,
                  asked |-> FALSE]
            ELSE IF op = "add_inbuf" /\ ok THEN ArmWork(mon.ak)
            ELSE IF op = "kick_available" THEN ArmAsk(mon.ak, fired)
            ELSE mon.ak,
     ac |-> IF op = "enable_call"
            THEN [armed |-> TRUE, ret |-> ret, work |-> 0, fired |-> 0,
                  asked |-> FALSE]
            ELSE IF op = "use_buf" /\ ok THEN ArmWork(mon.ac)
            ELSE IF op = "call_used" THEN ArmAsk(mon.ac, fired)
            ELSE mon.ac,
     poll |-> PollNext(op, ok)]

Outstanding == Len(published) - Len(returned)

Tags(pubs) == [i \in 1..Len(pubs) |-> pubs[i].tag]

HwCount ==
    Cardinality({i \in 0..(ring_size - 1) : BitAnd(ring[i].flags, DESC_HW) # 0})

----------------------------------------------------------------------------
(* The sequential specification: whole calls of the ring operations *)

\* need_event is not being exercised
NoNE == [ev |-> 0, start |-> 0, prev |-> 0, next |-> 0, res |-> FALSE,
         any |-> FALSE, total |-> 0, steps |-> 0]

\* the ring as s leaves it, with empty histories
InitFrom(s) ==
    /\ ring = s.ring
    /\ data = s.data
    /\ event = s.event
    /\ guest = s.guest
    /\ host = s.host
    /\ last = [op |-> "alloc_ring", ret |-> 0]
    /\ published = <<>>
    /\ returned = <<>>
    /\ flips = 0
    /\ overcap = FALSE
    /\ spurious = FALSE
    /\ scenLog = <<>>
    /\ mon = NoMon
    /\ ne = NoNE
    /\ fine = NoFine

Init ==
    /\ ring_size \in RingSizes
    /\ start = 0
    /\ scen = 0
    /\ InitFrom(alloc_ring(ring_size))

\* what every call leaves in the histories that all calls share
Hist(op, ret, ok, fired) ==
    /\ last' = [op |-> op, ret |-> ret]
    /\ ScenStep(op, ret)
    /\ mon' = MonNext(op, ret, ok, fired)
    /\ UNCHANGED <<start, ne, fine>>

AddInbufStep(maxpub) ==
    /\ Len(published) < maxpub
    /\ \E len \in Lens :
         LET tag == guest.avail_idx + 1
             r   == add_inbuf(Cur, len, BufOf(tag), tag)
         IN /\ Set(r.s)
            /\ Hist("add_inbuf", r.ret, r.ret = 0, FALSE)
            /\ published' =
                 IF r.ret = 0
                 THEN Append(published,
                             [tag |-> tag, head |-> r.head,
                              flags |-> r.s.ring[r.head].flags,
                              flipped |-> r.s.guest.wrap # guest.wrap])
                 ELSE published
            /\ flips' = IF r.s.guest.wrap # guest.wrap THEN flips + 1
                        ELSE flips
            /\ overcap' = (overcap \/
                           (r.ret = 0 /\ Outstanding + 1 > ring_size))
            /\ UNCHANGED <<returned, spurious>>

AddInbuf == AddInbufStep(MaxPub)

UseBuf ==
    LET r == use_buf(Cur)
    IN /\ Set(r.s)
       /\ Hist("use_buf", r.ret, r.ret, FALSE)
       /\ UNCHANGED <<published, returned, flips, overcap, spurious>>

GetBufStep(ahead) ==
    /\ guest.last_used_idx < guest.avail_idx + ahead
    /\ LET r == get_buf(Cur)
       IN /\ Set(r.s)
          /\ Hist("get_buf", r.ret, r.done, FALSE)
          /\ returned' = IF r.ret # NULL THEN Append(returned, r.ret)
                         ELSE returned
          /\ spurious' = (spurious \/
                           (r.done /\ guest.last_used_idx >= host.used_idx))
          /\ UNCHANGED <<published, flips, overcap>>

GetBuf == GetBufStep(MaxAhead)

Next == AddInbuf \/ UseBuf \/ GetBuf

Spec == Init /\ [][Next]_vars

----------------------------------------------------------------------------
(* The sequential specification with the notification calls.  A run starts *)
(* from alloc_ring or from a state the program is in after many buffers    *)
(* went round while both sides polled (Polled below).                      *)

\* the state after j rounds of add_inbuf, use_buf and get_buf on a ring of n
AfterRounds(j, n) ==
    LET laps == (j + n - 1) \div n
        wrap == IF laps % 2 = 0 THEN DESC_WRAP ELSE 0
        a    == alloc_ring(n)
        slot(i) ==
            IF i >= j THEN a.ring[i]
            ELSE LET m == (j - 1) - ((j - 1 - i) % n)
                 IN [addr  |-> BufOf(m + 1),
                     len   |-> Dec32(<<0, 0>>),
                     index |-> i,
                     flags |-> IF ((m \div n) + 1) % 2 = 0 THEN DESC_WRAP
                               ELSE 0]
    IN [a EXCEPT
          !.ring = [i \in 0..(n - 1) |-> slot(i)],
          !.guest.wrap = wrap,
          !.guest.avail_idx = j,
          !.guest.last_used_idx = j,
          !.host.wrap = wrap,
          !.host.used_idx = j]

\* the state after j >= 2 buffers went round, the calls being: add_inbuf and
\* kick_available (which kicks); use_buf and call_used (which calls);
\* add_inbuf, kick_available, get_buf; enable_call; use_buf and call_used
\* (which calls); get_buf; and then j - 2 rounds of add_inbuf,
\* kick_available, use_buf, call_used, get_buf, in which nothing is signalled
Polled(j, n) ==
    [AfterRounds(j, n) EXCEPT
       !.event.call_index = 1,
       !.host.called_used_idx = 2,
       !.guest.kicked_avail_idx = 1]

\* rounds gone by where a run may start
NotifyStarts == {0, USHORT_RANGE, USHORT_RANGE + 1}
\* ring sizes of the runs with notification calls
NotifySizes == {2}

InitNotify ==
    /\ ring_size \in NotifySizes
    /\ start \in NotifyStarts
    /\ scen = -1
    /\ InitFrom(IF start = 0 THEN alloc_ring(ring_size)
                ELSE Polled(start, ring_size))

NAddInbuf == AddInbufStep(MaxPubN)

\* get_buf called while the guest has buffers outstanding, as the guest loop
\* of the test program calls it
NGetBuf == GetBufStep(0)

EnableKick ==
    LET r == enable_kick(Cur)
    IN /\ Set(r.s)
       /\ Hist("enable_kick", r.ret, TRUE, FALSE)
       /\ UNCHANGED <<published, returned, flips, overcap, spurious>>

KickAvailable ==
    LET r == kick_available(Cur)
    IN /\ Set(r.s)
       /\ Hist("kick_available", r.fired, TRUE, r.fired)
       /\ UNCHANGED <<published, returned, flips, overcap, spurious>>

EnableCall ==
    LET r == enable_call(Cur)
    IN /\ Set(r.s)
       /\ Hist("enable_call", r.ret, TRUE, FALSE)
       /\ UNCHANGED <<published, returned, flips, overcap, spurious>>

CallUsed ==
    LET r == call_used(Cur)
    IN /\ Set(r.s)
       /\ Hist("call_used", r.fired, TRUE, r.fired)
       /\ UNCHANGED <<published, returned, flips, overcap, spurious>>

NextNotify ==
    \/ NAddInbuf
    \/ UseBuf
    \/ NGetBuf
    \/ EnableKick
    \/ KickAvailable
    \/ EnableCall
    \/ CallUsed

SpecNotify == InitNotify /\ [][NextNotify]_vars

\* The start states are states of the program: Polled(2, n) is reached from
\* alloc_ring by the calls listed at Polled,
PolledReached ==
    /\ start = 0
    /\ Cur = Polled(2, ring_size)
    /\ guest.avail_idx = 2

\* and a polling round with the notify calls leads from Polled(j, n) to
\* Polled(j + 1, n), also across the wrap of the 16 bit indices.
PolledStep ==
    (start >= 2 /\ mon.poll >= 0 /\ mon.poll % 5 = 0) =>
        Cur = Polled(start + (mon.poll \div 5), ring_size)

\* C3 (as stated), for the arm calls that returned true: after enable_kick,
\* once buffers were published and kick_available was called after one of
\* them, kick() was invoked exactly once since the arm call; and the same for
\* enable_call, use_buf, call_used and call().
C3_ExactlyOneSignal ==
    /\ (mon.ak.armed /\ mon.ak.ret /\ mon.ak.asked) => mon.ak.fired = 1
    /\ (mon.ac.armed /\ mon.ac.ret /\ mon.ac.asked) => mon.ac.fired = 1

\* the same for the runs that start at alloc_ring
C3_NearZero ==
    start = 0 => C3_ExactlyOneSignal

----------------------------------------------------------------------------
(* The concurrent specification: a guest thread and a host thread, one      *)
(* step for each read or write of memory the two share (ring, event,        *)
(* host.wrap) and for each signal.  The accesses take effect in program     *)
(* order, which the smp_mb() in enable_call, enable_kick, kick_available    *)
(* and call_used and the release/acquire pairs A and B ask of the machine.  *)
(* kick() and call() set a flag the other thread's wait consumes.  The      *)
(* guest calls kick_available after each add_inbuf that succeeded, the host *)
(* call_used after each use_buf that succeeded; a thread waits only after   *)
(* its enable_ call returned true.                                          *)

\* successful add_inbuf calls explored in a concurrent run
MaxPubF == 2
\* ring sizes of the concurrent runs
FineSizes == {2}

InitFine ==
    /\ ring_size \in FineSizes
    /\ start \in NotifyStarts
    /\ scen = -1
    /\ ring = (IF start = 0 THEN alloc_ring(ring_size)
               ELSE Polled(start, ring_size)).ring
    /\ data = (IF start = 0 THEN alloc_ring(ring_size)
               ELSE Polled(start, ring_size)).data
    /\ event = (IF start = 0 THEN alloc_ring(ring_size)
                ELSE Polled(start, ring_size)).event
    /\ guest = (IF start = 0 THEN alloc_ring(ring_size)
                ELSE Polled(start, ring_size)).guest
    /\ host = (IF start = 0 THEN alloc_ring(ring_size)
               ELSE Polled(start, ring_size)).host
    /\ last = [op |-> "alloc_ring", ret |-> 0]
    /\ published = <<>>
    /\ returned = <<>>
    /\ flips = 0
    /\ overcap = FALSE
    /\ spurious = FALSE
    /\ scenLog = <<>>
    /\ mon = NoMon
    /\ ne = NoNE
    \* the kick of the first buffer was never waited for; the calls were
    /\ fine = [NoFine EXCEPT !.kick = (start # 0)]

\* histories the concurrent runs do not keep
FineSkip == UNCHANGED <<ring_size, published, returned, flips, overcap,
                        spurious, scen, scenLog, start, ne>>

\* a step inside a call
FineMid == FineSkip /\ UNCHANGED <<last, mon>>

\* the step a call returns with
FineRet(op, ret, ok) ==
    /\ FineSkip
    /\ last' = [op |-> op, ret |-> ret]
    /\ mon' = [mon EXCEPT !.poll = PollNext(op, ok)]

GuestAt(pc) == fine.gpc = pc

HostAt(pc) == fine.hpc = pc

\* the slot add_inbuf is filling, after its guest.avail_idx++
AddHead == BitAnd(ring_size - 1, guest.avail_idx - 1)

GetHead == BitAnd(ring_size - 1, guest.last_used_idx)

UseHead == BitAnd(ring_size - 1, host.used_idx)

(* guest thread *)

\* add_inbuf that stores flags along with addr, before len
GAddInbuf_flagsfirst ==
    /\ GuestAt("idle")
    /\ guest.avail_idx - start < MaxPubF
    /\ IF guest.num_free = 0
       THEN /\ FineRet("add_inbuf", -1, FALSE)
            /\ UNCHANGED <<ring, data, event, guest, host, fine>>
       ELSE LET head == BitAnd(ring_size - 1, guest.avail_idx)
                wrap == IF head = 0 THEN ToggleWrap(guest.wrap)
                        ELSE guest.wrap
            IN /\ guest' = [guest EXCEPT !.num_free = @ - 1,
                                         !.avail_idx = @ + 1,
                                         !.wrap = wrap]
               /\ ring' = [ring EXCEPT
                             ![head].addr = BufOf(guest.avail_idx + 1),
                             ![head].flags = BitOr(DESC_HW, wrap)]
               /\ fine' = [fine EXCEPT !.gpc = "add_len"]
               /\ FineMid
               /\ UNCHANGED <<data, event, host>>

\* add_inbuf up to the write of addr
GAddInbuf ==
    /\ GuestAt("idle")
    /\ guest.avail_idx - start < MaxPubF
    /\ IF guest.num_free = 0
       THEN /\ FineRet("add_inbuf", -1, FALSE)
            /\ UNCHANGED <<ring, data, event, guest, host, fine>>
       ELSE LET head == BitAnd(ring_size - 1, guest.avail_idx)
                wrap == IF head = 0 THEN ToggleWrap(guest.wrap)
                        ELSE guest.wrap
            IN /\ guest' = [guest EXCEPT !.num_free = @ - 1,
                                         !.avail_idx = @ + 1,
                                         !.wrap = wrap]
               /\ ring' = [ring EXCEPT
                             ![head].addr = BufOf(guest.avail_idx + 1)]
               /\ fine' = [fine EXCEPT !.gpc = "add_len"]
               /\ FineMid
               /\ UNCHANGED <<data, event, host>>

GAddLen ==
    /\ GuestAt("add_len")
    /\ \E len \in Lens : ring' = [ring EXCEPT ![AddHead].len = len]
    /\ fine' = [fine EXCEPT !.gpc = "add_flags"]
    /\ FineMid
    /\ UNCHANGED <<data, event, guest, host>>

\* the shadow entry, and the write of flags that publishes
GAddFlags ==
    /\ GuestAt("add_flags")
    /\ data' = [data EXCEPT ![ring[AddHead].index] =
                  [buf |-> BufOf(guest.avail_idx), data |-> guest.avail_idx]]
    /\ ring' = [ring EXCEPT ![AddHead].flags = BitOr(DESC_HW, guest.wrap)]
    /\ fine' = [fine EXCEPT !.gpc = "kick_index"]
    /\ FineRet("add_inbuf", 0, TRUE)
    /\ UNCHANGED <<event, guest, host>>

\* kick_available: the read of event->kick_index
GKickIndex ==
    /\ GuestAt("kick_index")
    /\ fine' = [fine EXCEPT !.gpc = "kick", !.gtmp = event.kick_index]
    /\ FineMid
    /\ UNCHANGED ringVars

\* kick_available: the test, and kick()
GKick ==
    /\ GuestAt("kick")
    /\ LET f == need_event(fine.gtmp, U16(guest.avail_idx),
                           U16(guest.kicked_avail_idx))
       IN /\ guest' = IF f
                      THEN [guest EXCEPT !.kicked_avail_idx = guest.avail_idx]
                      ELSE guest
          /\ fine' = [fine EXCEPT !.gpc = "idle", !.gtmp = 0,
                                  !.kick = (@ \/ f)]
          /\ FineRet("kick_available", f, TRUE)
    /\ UNCHANGED <<ring, data, event, host>>

\* get_buf, called for a buffer that is outstanding: the test of flags
GGetBuf ==
    /\ GuestAt("idle")
    /\ guest.last_used_idx < guest.avail_idx
    /\ IF BitAnd(ring[GetHead].flags, DESC_HW) # 0
       THEN /\ FineRet("get_buf", NULL, FALSE)
            /\ UNCHANGED fine
       ELSE /\ fine' = [fine EXCEPT !.gpc = "get_len"]
            /\ FineMid
    /\ UNCHANGED ringVars

GGetLen ==
    /\ GuestAt("get_len")
    /\ fine' = [fine EXCEPT !.gpc = "get_flags", !.gtmp = ring[GetHead].len[2]]
    /\ FineMid
    /\ UNCHANGED ringVars

\* the shadow entry, the guest's counters, and the last read of flags
GGetFlags ==
    /\ GuestAt("get_flags")
    /\ LET index == BitAnd(ring[GetHead].index, ring_size - 1)
       IN /\ data' = [data EXCEPT ![index] = [buf |-> NULL, data |-> NULL]]
          /\ FineRet("get_buf", data[index].data, TRUE)
    /\ guest' = [guest EXCEPT !.num_free = @ + 1, !.last_used_idx = @ + 1]
    /\ fine' = [fine EXCEPT !.gpc = "idle", !.gtmp = 0]
    /\ UNCHANGED <<ring, event, host>>

\* enable_call: the write of event->call_index
GEnableCall ==
    /\ GuestAt("idle")
    /\ event' = [event EXCEPT !.call_index = U16(guest.last_used_idx)]
    /\ fine' = [fine EXCEPT !.gpc = "used_flags"]
    /\ FineMid
    /\ UNCHANGED <<ring_size, ring, data, guest, host>>

\* used_empty: the read of flags
GUsedFlags ==
    /\ GuestAt("used_flags")
    /\ IF BitAnd(ring[GetHead].flags, DESC_HW) = 0
       THEN /\ fine' = [fine EXCEPT !.gpc = "idle"]
            /\ FineRet("enable_call", FALSE, TRUE)
       ELSE /\ fine' = [fine EXCEPT !.gpc = "used_wrap",
                                    !.gtmp = ring[GetHead].flags]
            /\ FineMid
    /\ UNCHANGED ringVars

\* used_empty: the read of host.wrap
GUsedWrap ==
    /\ GuestAt("used_wrap")
    /\ LET r == BitAnd(fine.gtmp, DESC_WRAP) = host.wrap
       IN /\ fine' = [fine EXCEPT
                        !.gpc = IF r THEN "wait_for_call" ELSE "idle",
                        !.gtmp = 0]
          /\ FineRet("enable_call", r, TRUE)
    /\ UNCHANGED ringVars

GWaitForCall ==
    /\ GuestAt("wait_for_call")
    /\ fine.call
    /\ fine' = [fine EXCEPT !.gpc = "idle", !.call = FALSE]
    /\ FineRet("wait_for_call", 0, TRUE)
    /\ UNCHANGED ringVars

(* host thread *)

\* use_buf: the toggle of host.wrap at slot 0
HUseBuf ==
    /\ HostAt("idle")
    /\ host' = [host EXCEPT !.wrap = IF UseHead = 0 THEN ToggleWrap(@) ELSE @]
    /\ fine' = [fine EXCEPT !.hpc = "use_flags"]
    /\ FineMid
    /\ UNCHANGED <<ring_size, ring, data, event, guest>>

\* use_buf: the two tests of flags
HUseFlags ==
    /\ HostAt("use_flags")
    /\ IF \/ BitAnd(ring[UseHead].flags, DESC_HW) = 0
          \/ BitAnd(ring[UseHead].flags, DESC_WRAP) # host.wrap
       THEN /\ fine' = [fine EXCEPT !.hpc = "idle"]
            /\ FineRet("use_buf", FALSE, FALSE)
       ELSE /\ fine' = [fine EXCEPT !.hpc = "use_len"]
            /\ FineMid
    /\ UNCHANGED ringVars

HUseLen ==
    /\ HostAt("use_len")
    /\ ring' = [ring EXCEPT ![UseHead].len = Dec32(@)]
    /\ fine' = [fine EXCEPT !.hpc = "use_done"]
    /\ FineMid
    /\ UNCHANGED <<ring_size, data, event, guest, host>>

\* the write of flags that completes, and host.used_idx++
HUseDone ==
    /\ HostAt("use_done")
    /\ ring' = [ring EXCEPT
                  ![UseHead].flags = IF host.wrap # 0 THEN DESC_WRAP ELSE 0]
    /\ host' = [host EXCEPT !.used_idx = @ + 1]
    /\ fine' = [fine EXCEPT !.hpc = "call_index"]
    /\ FineRet("use_buf", TRUE, TRUE)
    /\ UNCHANGED <<ring_size, data, event, guest>>

\* call_used: the read of event->call_index
HCallIndex ==
    /\ HostAt("call_index")
    /\ fine' = [fine EXCEPT !.hpc = "call", !.htmp = event.call_index]
    /\ FineMid
    /\ UNCHANGED ringVars

\* call_used: the test, and call()
HCall ==
    /\ HostAt("call")
    /\ LET f == need_event(fine.htmp, U16(host.used_idx),
                           U16(host.called_used_idx))
       IN /\ host' = IF f
                     THEN [host EXCEPT !.called_used_idx = host.used_idx]
                     ELSE host
          /\ fine' = [fine EXCEPT !.hpc = "idle", !.htmp = 0,
                                  !.call = (@ \/ f)]
          /\ FineRet("call_used", f, TRUE)
    /\ UNCHANGED <<ring_size, ring, data, event, guest>>

\* enable_kick: the write of event->kick_index
HEnableKick ==
    /\ HostAt("idle")
    /\ event' = [event EXCEPT !.kick_index = U16(host.used_idx)]
    /\ fine' = [fine EXCEPT !.hpc = "avail_flags"]
    /\ FineMid
    /\ UNCHANGED <<ring_size, ring, data, guest, host>>

\* avail_empty: the read of flags
HAvailFlags ==
    /\ HostAt("avail_flags")
    /\ LET r == BitAnd(ring[UseHead].flags, DESC_HW) = 0
       IN /\ fine' = [fine EXCEPT
                        !.hpc = IF r THEN "wait_for_kick" ELSE "idle"]
          /\ FineRet("enable_kick", r, TRUE)
    /\ UNCHANGED ringVars

HWaitForKick ==
    /\ HostAt("wait_for_kick")
    /\ fine.kick
    /\ fine' = [fine EXCEPT !.hpc = "idle", !.kick = FALSE]
    /\ FineRet("wait_for_kick", 0, TRUE)
    /\ UNCHANGED ringVars

NextFine ==
    \/ GAddInbuf
    \/ GAddLen
    \/ GAddFlags
    \/ GKickIndex
    \/ GKick
    \/ GGetBuf
    \/ GGetLen
    \/ GGetFlags
    \/ GEnableCall
    \/ GUsedFlags
    \/ GUsedWrap
    \/ GWaitForCall
    \/ HUseBuf
    \/ HUseFlags
    \/ HUseLen
    \/ HUseDone
    \/ HCallIndex
    \/ HCall
    \/ HEnableKick
    \/ HAvailFlags
    \/ HWaitForKick

SpecFine == InitFine /\ [][NextFine]_vars

\* both threads are between calls
FineIdle == GuestAt("idle") /\ HostAt("idle")

\* The start states are states of the concurrent program: the state
\* Polled(2, n), with the first kick pending and no call pending, is reached
\* from alloc_ring,
FinePolledReached ==
    /\ start = 0
    /\ FineIdle
    /\ Cur = Polled(2, ring_size)
    /\ fine.kick /\ ~fine.call

\* and a polling round leads from Polled(j, n) to Polled(j + 1, n) with the
\* same signals pending.
FinePolledStep ==
    (start >= 2 /\ mon.poll >= 0 /\ mon.poll % 5 = 0 /\ FineIdle) =>
        /\ Cur = Polled(start + (mon.poll \div 5), ring_size)
        /\ fine.kick /\ ~fine.call

\* a thread waits, nothing is signalled to it, and the other thread waits
\* too with nothing signalled: no step is left that could signal
GuestBlocked ==
    /\ GuestAt("wait_for_call") /\ ~fine.call
    /\ HostAt("wait_for_kick") /\ ~fine.kick

\* C4 (as stated): no reachable state has a thread blocked for good in
\* wait_for_call while a buffer completed by use_buf is there for it, or in
\* wait_for_kick while a buffer published by add_inbuf is there for it, with
\* no signal to it pending.
C4_NoLostWakeup ==
    GuestBlocked =>
        /\ host.used_idx = guest.last_used_idx
        /\ guest.avail_idx = host.used_idx

\* the same for the runs that start at alloc_ring
C4_NearZero ==
    start = 0 => C4_NoLostWakeup

----------------------------------------------------------------------------
(* need_event on its own: an index advances from a starting value, and    *)
(* need_event is evaluated after every advance against the value before   *)
(* it, as kick_available and call_used do                                  *)

\* 16 bit values tried for the requested index and the starting index
NEVals == {0, 5, 10, USHORT_RANGE - 2, USHORT_RANGE - 1}
\* lengths of one advance
NESteps == {0, 1, 4, 5, USHORT_RANGE \div 2, USHORT_RANGE - 1}

InitNE ==
    /\ ring_size = 1
    /\ start = 0
    /\ scen = -1
    /\ ring = alloc_ring(1).ring
    /\ data = alloc_ring(1).data
    /\ event = alloc_ring(1).event
    /\ guest = alloc_ring(1).guest
    /\ host = alloc_ring(1).host
    /\ last = [op |-> "alloc_ring", ret |-> 0]
    /\ published = <<>>
    /\ returned = <<>>
    /\ flips = 0
    /\ overcap = FALSE
    /\ spurious = FALSE
    /\ scenLog = <<>>
    /\ mon = NoMon
    /\ fine = NoFine
    /\ \E e \in NEVals, n \in NEVals :
         ne = [ev |-> e, start |-> n, prev |-> n, next |-> n, res |-> FALSE,
               any |-> FALSE, total |-> 0, steps |-> 0]

Advance ==
    /\ ne.steps < MaxSteps
    /\ \E d \in NESteps :
         LET n == U16(ne.next + d)
             r == need_event(ne.ev, n, ne.next)
         IN ne' = [ne EXCEPT !.prev = ne.next, !.next = n, !.res = r,
                             !.any = (ne.any \/ r), !.total = @ + d,
                             !.steps = @ + 1]
    /\ UNCHANGED <<ringVars, histVars, fine>>

NextNE == Advance

SpecNE == InitNE /\ [][NextNE]_vars

\* C5: need_event(event, next, prev) is true iff
\* (next - event - 1) mod 2^16 < (next - prev) mod 2^16; need_event(5,10,5)
\* and need_event(65535,2,65534) are true, need_event(10,10,5) and
\* need_event(0,0,0) are false.
C5_TieBreakFormula ==
    ne.steps >= 1 =>
        /\ ne.res = (((ne.next - ne.ev - 1) % USHORT_RANGE)
                       < ((ne.next - ne.prev) % USHORT_RANGE))
        /\ (ne.ev = 5 /\ ne.next = 10 /\ ne.prev = 5) => ne.res = TRUE
        /\ (ne.ev = 10 /\ ne.next = 10 /\ ne.prev = 5) => ne.res = FALSE
        /\ (ne.ev = 0 /\ ne.next = 0 /\ ne.prev = 0) => ne.res = FALSE
        /\ (ne.ev = 65535 /\ ne.next = 2 /\ ne.prev = 65534) => ne.res = TRUE

\* the vector across the wrap of the index was evaluated
C5_Witness ==
    /\ ne.steps >= 1
    /\ ne.ev = 65535 /\ ne.next = 2 /\ ne.prev = 65534
    /\ ne.res = TRUE

\* C6 (as stated): need_event is true iff the requested index lies strictly
\* after the last notified index and at or before the current index, i.e. iff
\* (current - requested) mod 2^16 < (current - lastNotified) mod 2^16.
C6_AfterPrevUpToNext ==
    ne.steps >= 1 =>
        ne.res = (((ne.next - ne.ev) % USHORT_RANGE)
                    < ((ne.next - ne.prev) % USHORT_RANGE))

\* C6 (amended): need_event is true iff the requested index lies at or after
\* the last notified index and strictly before the current index, i.e. iff
\* 1 <= (current - requested) mod 2^16 <= (current - lastNotified) mod 2^16.
C6_FromPrevBeforeNext ==
    ne.steps >= 1 =>
        ne.res = (/\ 1 <= (ne.next - ne.ev) % USHORT_RANGE
                  /\ (ne.next - ne.ev) % USHORT_RANGE
                       <= (ne.next - ne.prev) % USHORT_RANGE)

\* the requested index is the last notified one, and need_event is true
C6_Witness ==
    /\ ne.steps >= 1
    /\ ne.ev = ne.prev
    /\ ne.next # ne.prev
    /\ ne.res = TRUE

\* C7 (as stated): after any advances of any total length, need_event against
\* the starting index equals the OR of need_event over the single advances.
C7_TelescopeAnyLength ==
    ne.steps >= 1 => (need_event(ne.ev, ne.next, ne.start) = ne.any)

\* C7 (amended): the same, for advances whose total length is less than 2^16.
C7_TelescopeBelowWrap ==
    (ne.steps >= 1 /\ ne.total < USHORT_RANGE) =>
        (need_event(ne.ev, ne.next, ne.start) = ne.any)

\* several advances carried the index across its wrap and past the request
C7_Witness ==
    /\ ne.steps >= 2
    /\ ne.total < USHORT_RANGE
    /\ ne.next < ne.start
    /\ ne.any
    /\ ~ne.res

----------------------------------------------------------------------------
(* Claims checked under Spec *)

\* C1 (as stated): when the guest never had more than ring_size buffers
\* outstanding, the tags get_buf returned are, in order, a prefix of the tags
\* add_inbuf published.
C1_FifoPrefix ==
    ~overcap => IsPrefix(returned, Tags(published))

\* C2 (as stated): guest.num_free plus the number of slots with DESC_HW set
\* equals ring_size in every reachable state; taken here over the runs in
\* which get_buf only ever took slots the host had completed.
C2_FreePlusHwOwned ==
    ~spurious => guest.num_free + HwCount = ring_size

\* C2 (amended): guest.num_free plus the number of buffers published and not
\* yet reclaimed, guest.avail_idx - guest.last_used_idx, equals ring_size; the
\* slots with DESC_HW set are only part of that difference.
C2_FreePlusUnreclaimed ==
    guest.num_free + (guest.avail_idx - guest.last_used_idx) = ring_size

\* a buffer is completed by the host and not yet reclaimed by the guest
C2_Witness ==
    /\ last.op = "use_buf"
    /\ last.ret = TRUE
    /\ host.used_idx > guest.last_used_idx
    /\ guest.num_free + HwCount < ring_size

\* C8 (as stated): ring_size = 4; after four add_inbuf calls, a fifth that
\* finds the ring full and one use_buf, guest.num_free is 1.
C8_FreeAfterUse ==
    (ring_size = 4 /\ scen = 6) => guest.num_free = 1

\* C8 (amended): ring_size = 4; add_inbuf A, B, C, D return 0 and a fifth
\* returns -1; use_buf returns true and leaves guest.num_free at 0; get_buf
\* then returns A and guest.num_free is 1; add_inbuf(E) returns 0, lands in
\* slot 0 and carries the opposite DESC_WRAP bit to A's publish; whatever
\* use_buf and get_buf calls follow, get_buf returns A, B, C, D, E in order.
C8_Scenario ==
    (ring_size = 4 /\ scen >= 1) =>
        /\ \A k \in 1..4 : k <= scen => scenLog[k] = 0
        /\ scen >= 5 => scenLog[5] = -1
        /\ scen = 5 => guest.num_free = 0
        /\ scen >= 6 => scenLog[6] = TRUE
        /\ scen = 6 => guest.num_free = 0
        /\ scen >= 7 => scenLog[7] = 1
        /\ scen = 7 => guest.num_free = 1
        /\ scen >= 8 =>
             /\ scenLog[8] = 0
             /\ Len(published) = 5
             /\ published[5].head = 0
             /\ published[1].head = 0
             /\ BitAnd(published[5].flags, DESC_WRAP)
                  # BitAnd(published[1].flags, DESC_WRAP)
             /\ IsPrefix(returned, <<1, 2, 3, 4, 5>>)

\* the script ran to its end and all five tags came back
C8_Witness ==
    /\ ring_size = 4
    /\ scen = 8
    /\ returned = <<1, 2, 3, 4, 5>>

\* C9: add_inbuf returns -1 exactly when guest.num_free is 0 at the call, and
\* then leaves ring, shadow table and guest fields as they were; any other
\* call returns 0, takes one from guest.num_free and adds one to
\* guest.avail_idx.
C9_RingFullExactly ==
    [][last'.op = "add_inbuf" =>
         IF guest.num_free = 0
         THEN /\ last'.ret = -1
              /\ UNCHANGED <<ring, data, guest>>
         ELSE /\ last'.ret = 0
              /\ guest'.num_free = guest.num_free - 1
              /\ guest'.avail_idx = guest.avail_idx + 1]_vars

\* add_inbuf found a ring it had filled itself
C9_Witness ==
    /\ last.op = "add_inbuf"
    /\ last.ret = -1
    /\ guest.num_free = 0
    /\ Len(published) >= ring_size

Lap(i) == (i - 1) \div ring_size

\* C10: guest.wrap changes on exactly the publishes that land in slot 0, one
\* in every ring_size successive publishes, and on no other call; descriptors
\* published in one lap carry the same DESC_WRAP bit and those of the next
\* lap the opposite one.
C10_WrapPerLap ==
    /\ flips = (Len(published) + ring_size - 1) \div ring_size
    /\ \A i \in 1..Len(published) :
         /\ published[i].head = (i - 1) % ring_size
         /\ published[i].flipped <=> (published[i].head = 0)
    /\ \A i, j \in 1..Len(published) :
         /\ Lap(i) = Lap(j) =>
              BitAnd(published[i].flags, DESC_WRAP)
                = BitAnd(published[j].flags, DESC_WRAP)
         /\ Lap(j) = Lap(i) + 1 =>
              BitAnd(published[i].flags, DESC_WRAP)
                # BitAnd(published[j].flags, DESC_WRAP)

\* three full laps of a ring of more than one slot were published
C10_Witness ==
    /\ ring_size >= 2
    /\ ~spurious
    /\ Len(published) >= 3 * ring_size
    /\ flips = 3

\* slot h holds a buffer that was published and has not been returned
SlotOutstanding(h) ==
    \E i \in 1..Len(published) :
        /\ published[i].head = h
        /\ \A k \in 1..Len(returned) : returned[k] # published[i].tag

\* C11 (as stated): add_inbuf writes addr, len and the shadow entry only of a
\* slot whose DESC_HW bit is clear and which holds no outstanding buffer, and
\* use_buf writes len only of a slot whose DESC_HW bit is set.
C11_WriteExclusion ==
    [][/\ (last'.op = "add_inbuf" /\ last'.ret = 0) =>
            LET head == BitAnd(ring_size - 1, guest.avail_idx)
            IN /\ BitAnd(ring[head].flags, DESC_HW) = 0
               /\ ~SlotOutstanding(head)
       /\ (last'.op = "use_buf" /\ last'.ret = TRUE) =>
            BitAnd(ring[UseHead].flags, DESC_HW) # 0]_vars

\* the same, up to the first get_buf that took a slot nothing was completed in
C11_UntilSpurious ==
    [][~spurious =>
        /\ (last'.op = "add_inbuf" /\ last'.ret = 0) =>
             LET head == BitAnd(ring_size - 1, guest.avail_idx)
             IN /\ BitAnd(ring[head].flags, DESC_HW) = 0
                /\ ~SlotOutstanding(head)
        /\ (last'.op = "use_buf" /\ last'.ret = TRUE) =>
             BitAnd(ring[UseHead].flags, DESC_HW) # 0]_vars

\* the same with the calls interleaved store by store, get_buf being called
\* for outstanding buffers only: while add_inbuf is between its stores the
\* slot is not the host's, while use_buf is the slot is
C11_FineExclusion ==
    /\ (GuestAt("add_len") \/ GuestAt("add_flags")) =>
           BitAnd(ring[AddHead].flags, DESC_HW) = 0
    /\ (HostAt("use_len") \/ HostAt("use_done")) =>
           BitAnd(ring[UseHead].flags, DESC_HW) # 0

\* the value use_buf leaves in len for a buffer published with a length in Lens
Completed(l) == \E len \in Lens : l = Dec32(len)

----------------------------------------------------------------------------
(* Every operation of the API as a call of its own, from alloc_ring: what  *)
(* each call writes and what it reads                                       *)

\* a call: the state it leaves and what it returned (0 for void)
FrameCall(op, s, ret) ==
    /\ Set(s)
    /\ last' = [op |-> op, ret |-> ret]
    /\ UNCHANGED <<published, returned, flips, overcap, spurious, scen,
                   scenLog, start, mon, ne, fine>>

InitFrame ==
    /\ ring_size \in RingSizes
    /\ start = 0
    /\ scen = -1
    /\ InitFrom(alloc_ring(ring_size))

FAddInbuf ==
    /\ guest.avail_idx < MaxPubN
    /\ \E len \in Lens :
         LET r == add_inbuf(Cur, len, BufOf(guest.avail_idx + 1),
                            guest.avail_idx + 1)
         IN FrameCall("add_inbuf", r.s, r.ret)

FGetBuf ==
    /\ guest.last_used_idx < guest.avail_idx + MaxAhead
    /\ LET r == get_buf(Cur)
       IN FrameCall("get_buf", r.s, r.ret)

FUsedEmpty == FrameCall("used_empty", Cur, used_empty(Cur))

FDisableCall == FrameCall("disable_call", disable_call(Cur), 0)

FEnableCall ==
    LET r == enable_call(Cur)
    IN FrameCall("enable_call", r.s, r.ret)

FKickAvailable ==
    LET r == kick_available(Cur)
    IN FrameCall("kick_available", r.s, r.fired)

FUseBuf ==
    LET r == use_buf(Cur)
    IN FrameCall("use_buf", r.s, r.ret)

FAvailEmpty == FrameCall("avail_empty", Cur, avail_empty(Cur))

FDisableKick == FrameCall("disable_kick", disable_kick(Cur), 0)

FEnableKick ==
    LET r == enable_kick(Cur)
    IN FrameCall("enable_kick", r.s, r.ret)

FCallUsed ==
    LET r == call_used(Cur)
    IN FrameCall("call_used", r.s, r.fired)

NextFrame ==
    \/ FAddInbuf
    \/ FGetBuf
    \/ FUsedEmpty
    \/ FDisableCall
    \/ FEnableCall
    \/ FKickAvailable
    \/ FUseBuf
    \/ FAvailEmpty
    \/ FDisableKick
    \/ FEnableKick
    \/ FCallUsed

SpecFrame == InitFrame /\ [][NextFrame]_vars

\* the guest side and the host side of the API
ProducerOps == {"add_inbuf", "get_buf", "used_empty", "enable_call",
                "disable_call", "kick_available"}

ConsumerOps == {"use_buf", "avail_empty", "enable_kick", "disable_kick",
                "call_used"}

\* C13: no host operation changes a guest field, the shadow table or
\* event->call_index; no guest operation changes a host field or
\* event->kick_index; disable_call and disable_kick change nothing.
C13_PrivateState ==
    [][/\ last'.op \in ConsumerOps =>
            /\ guest' = guest
            /\ data' = data
            /\ event'.call_index = event.call_index
       /\ last'.op \in ProducerOps =>
            /\ host' = host
            /\ event'.kick_index = event.kick_index
       /\ last'.op \in {"disable_call", "disable_kick"} =>
            UNCHANGED ringVars]_vars

\* use_buf completed a buffer the guest has not reclaimed, call_used
\* signalled it, and the guest's fields are as its own calls left them
C13_Witness ==
    /\ last.op = "call_used"
    /\ last.ret = TRUE
    /\ host.used_idx > guest.last_used_idx
    /\ guest.num_free = ring_size - (guest.avail_idx - guest.last_used_idx)
    /\ event.call_index = U16(guest.last_used_idx)
    /\ guest.last_used_idx >= 1

\* other values the host's private fields could have
HostAlts ==
    [wrap : {0, DESC_WRAP}, used_idx : {0, MaxPubN},
     called_used_idx : {-1, 1}]

\* other values the guest's private fields could have
GuestAlts ==
    [wrap : {0, DESC_WRAP}, avail_idx : {0, MaxPubN},
     last_used_idx : {0, MaxPubN}, num_free : {0, ring_size},
     kicked_avail_idx : {-1, 1}]

\* what a guest operation leaves outside the host's fields
GuestView(s) == [ring |-> s.ring, data |-> s.data, event |-> s.event,
                 guest |-> s.guest]

\* what a host operation leaves outside the guest's fields
HostView(s) == [ring |-> s.ring, data |-> s.data, event |-> s.event,
                host |-> s.host]

\* add_inbuf, get_buf and kick_available return and do the same whatever the
\* host's fields are
ProducerBlind(s, t) ==
    /\ \A len \in Lens :
         LET a == add_inbuf(s, len, BufOf(1), 1)
             b == add_inbuf(t, len, BufOf(1), 1)
         IN a.ret = b.ret /\ GuestView(a.s) = GuestView(b.s)
    /\ get_buf(s).ret = get_buf(t).ret
    /\ GuestView(get_buf(s).s) = GuestView(get_buf(t).s)
    /\ kick_available(s).fired = kick_available(t).fired
    /\ GuestView(kick_available(s).s) = GuestView(kick_available(t).s)

\* so do used_empty and enable_call
UsedEmptyBlind(s, t) ==
    /\ used_empty(s) = used_empty(t)
    /\ enable_call(s).ret = enable_call(t).ret
    /\ GuestView(enable_call(s).s) = GuestView(enable_call(t).s)

\* use_buf, avail_empty, enable_kick and call_used return and do the same
\* whatever the guest's fields are
ConsumerBlind(s, t) ==
    /\ use_buf(s).ret = use_buf(t).ret
    /\ HostView(use_buf(s).s) = HostView(use_buf(t).s)
    /\ avail_empty(s) = avail_empty(t)
    /\ enable_kick(s).ret = enable_kick(t).ret
    /\ HostView(enable_kick(s).s) = HostView(enable_kick(t).s)
    /\ call_used(s).fired = call_used(t).fired
    /\ HostView(call_used(s).s) = HostView(call_used(t).s)

\* C14 (as stated): in two states that agree on the ring, the shadow table,
\* the event indices and the guest's fields and differ in the host's fields,
\* every guest operation returns the same and has the same effect; and the
\* host operations likewise do not depend on the guest's fields.
C14_OnlySharedChannel ==
    /\ \A h \in HostAlts :
         /\ ProducerBlind(Cur, [Cur EXCEPT !.host = h])
         /\ UsedEmptyBlind(Cur, [Cur EXCEPT !.host = h])
    /\ \A g \in GuestAlts : ConsumerBlind(Cur, [Cur EXCEPT !.guest = g])

\* the same without used_empty and enable_call
C14_ButUsedEmpty ==
    /\ \A h \in HostAlts : ProducerBlind(Cur, [Cur EXCEPT !.host = h])
    /\ \A g \in GuestAlts : ConsumerBlind(Cur, [Cur EXCEPT !.guest = g])

\* two states the program reaches that differ in host.wrap alone: after
\* add_inbuf, and after a use_buf that found nothing and then add_inbuf
C14_StateA ==
    /\ ring_size = 2
    /\ Cur = add_inbuf(alloc_ring(2), <<0, 0>>, BufOf(1), 1).s
    /\ ~used_empty(Cur)

C14_StateB ==
    /\ ring_size = 2
    /\ Cur = add_inbuf(use_buf(alloc_ring(2)).s, <<0, 0>>, BufOf(1), 1).s
    /\ used_empty(Cur)

----------------------------------------------------------------------------
(* More claims checked under Spec *)

\* C15 (as stated): when no buffer is completed and not yet reclaimed (the
\* oldest outstanding buffer is not completed, or nothing is outstanding),
\* get_buf returns NULL and leaves guest.num_free, guest.last_used_idx and
\* the shadow table as they were.
C15_ReclaimPeek ==
    [][(last'.op = "get_buf" /\ guest.last_used_idx >= host.used_idx) =>
         /\ last'.ret = NULL
         /\ guest'.num_free = guest.num_free
         /\ guest'.last_used_idx = guest.last_used_idx
         /\ data' = data]_vars

\* the half of it that is about an outstanding buffer the host has not
\* completed
C15_PeekOutstanding ==
    [][(/\ last'.op = "get_buf"
        /\ guest.last_used_idx >= host.used_idx
        /\ guest.last_used_idx < guest.avail_idx
        /\ ~spurious) =>
         /\ last'.ret = NULL
         /\ UNCHANGED <<guest, data, ring>>]_vars

\* host.wrap after u successful use_buf calls and no other: toggled once for
\* each lap begun
HostWrapOf(u) ==
    IF ((u + ring_size - 1) \div ring_size) % 2 = 0 THEN DESC_WRAP ELSE 0

\* C16 (as stated): where a published buffer is unclaimed (avail_empty()
\* returns false) the next use_buf returns true, and use_buf returns false
\* only when nothing is published at host.used_idx.
C16_ClaimSucceeds ==
    [][last'.op = "use_buf" =>
         /\ ~avail_empty(Cur) => last'.ret = TRUE
         /\ last'.ret = FALSE => host.used_idx >= guest.avail_idx]_vars

\* the same for the calls that find host.wrap as the successful calls alone
\* would have left it, in runs where get_buf took completed buffers only
C16_WhenWrapInStep ==
    [][(/\ last'.op = "use_buf"
        /\ host.wrap = HostWrapOf(host.used_idx)
        /\ ~spurious) =>
         /\ ~avail_empty(Cur) => last'.ret = TRUE
         /\ last'.ret = FALSE => host.used_idx >= guest.avail_idx]_vars

\* C17 (as stated): host.wrap toggles exactly once in each lap of
\* host.used_idx, so it is what the successful use_buf calls alone make it;
\* and a use_buf that returns false leaves host.wrap, host.used_idx and the
\* ring as they were.
C17_HostWrapPerLap ==
    [][last'.op = "use_buf" =>
         /\ host'.wrap = HostWrapOf(host'.used_idx)
         /\ last'.ret = FALSE => UNCHANGED <<host, ring>>]_vars

\* what holds of it: a use_buf that returns true toggles host.wrap exactly
\* when it completes slot 0, and one that returns false leaves host.used_idx
\* and the ring as they were
C17_ToggleOnSuccess ==
    [][last'.op = "use_buf" =>
         /\ last'.ret = TRUE =>
              ((host'.wrap # host.wrap) <=> (UseHead = 0))
         /\ last'.ret = FALSE =>
              /\ host'.used_idx = host.used_idx
              /\ ring' = ring]_vars

\* the empty shadow entry
NoData == [buf |-> NULL, data |-> NULL]

\* the tag of the last buffer published into slot h
LastTagIn(h) ==
    LET is == {i \in 1..Len(published) : published[i].head = h}
    IN published[CHOOSE i \in is : \A j \in is : j <= i].tag

\* the shadow entries are those of the outstanding slots, each the handle
\* and tag of the buffer last published into the slot
ShadowExact ==
    \A i \in 0..(ring_size - 1) :
        /\ ring[i].index = i
        /\ IF SlotOutstanding(i)
           THEN data[i] = [buf |-> BufOf(LastTagIn(i)),
                           data |-> LastTagIn(i)]
           ELSE data[i] = NoData

\* a get_buf that returns a tag returns the handle and tag the add_inbuf of
\* that slot stored, whatever the host wrote, and clears the entry
ShadowReturned ==
    (last'.op = "get_buf" /\ last'.ret # NULL) =>
        /\ last'.ret = LastTagIn(GetHead)
        /\ get_buf(Cur).buf = BufOf(LastTagIn(GetHead))
        /\ data'[GetHead] = NoData
        /\ \A i \in 0..(ring_size - 1) : i # GetHead => data'[i] = data[i]

\* C18 (as stated): in every reachable state data[i] holds a handle and tag
\* exactly for the slots i that hold an outstanding buffer, and NULL, NULL
\* otherwise; a successful get_buf returns the handle and tag stored by the
\* matching add_inbuf and clears the entry.
C18_ShadowRoundTrip ==
    []ShadowExact /\ [][ShadowReturned]_vars

\* the same up to the first get_buf that took a slot nothing was completed in
C18_UntilSpurious ==
    [](~spurious => ShadowExact) /\ [][~spurious' => ShadowReturned]_vars

\* C19 (as stated): in every state reached from alloc_ring by add_inbuf,
\* use_buf and get_buf calls, 0 <= guest.num_free <= ring_size,
\* guest.last_used_idx <= host.used_idx <= guest.avail_idx
\* <= guest.last_used_idx + ring_size, and guest.num_free is
\* ring_size - (guest.avail_idx - guest.last_used_idx).
C19_CursorBounds ==
    /\ 0 <= guest.num_free
    /\ guest.num_free <= ring_size
    /\ guest.last_used_idx <= host.used_idx
    /\ host.used_idx <= guest.avail_idx
    /\ guest.avail_idx <= guest.last_used_idx + ring_size
    /\ guest.num_free = ring_size - (guest.avail_idx - guest.last_used_idx)

\* the same up to the first get_buf that took a slot nothing was completed in
C19_UntilSpurious ==
    ~spurious => C19_CursorBounds

----------------------------------------------------------------------------
(* Polling: both sides keep calling, and a use_buf or get_buf call that     *)
(* can be made is eventually made.  What a call returned is kept as the int *)
(* C converts it to.                                                        *)

PollCall(op, ret) ==
    /\ last' = [op |-> op, ret |-> ret]
    /\ UNCHANGED <<flips, overcap, scen, scenLog, start, mon, ne, fine>>

PAddInbuf ==
    /\ Len(published) < MaxPub
    /\ \E len \in Lens :
         LET tag == guest.avail_idx + 1
             r   == add_inbuf(Cur, len, BufOf(tag), tag)
         IN /\ Set(r.s)
            /\ PollCall("add_inbuf", r.ret)
            /\ published' =
                 IF r.ret = 0
                 THEN Append(published,
                             [tag |-> tag, head |-> r.head,
                              flags |-> r.s.ring[r.head].flags,
                              flipped |-> r.s.guest.wrap # guest.wrap])
                 ELSE published
            /\ UNCHANGED <<returned, spurious>>

PUseBuf ==
    LET r == use_buf(Cur)
    IN /\ Set(r.s)
       /\ PollCall("use_buf", IF r.ret THEN 1 ELSE 0)
       /\ UNCHANGED <<published, returned, spurious>>

PGetBufStep(ahead) ==
    /\ guest.last_used_idx < guest.avail_idx + ahead
    /\ LET r == get_buf(Cur)
       IN /\ Set(r.s)
          /\ PollCall("get_buf", r.ret)
          /\ returned' = IF r.ret # NULL THEN Append(returned, r.ret)
                         ELSE returned
          /\ spurious' = (spurious \/
                           (r.done /\ guest.last_used_idx >= host.used_idx))
          /\ UNCHANGED published

PGetBuf == PGetBufStep(MaxAhead)

\* get_buf called only while the guest has buffers outstanding
PGetOutstanding == PGetBufStep(0)

NextPoll == PAddInbuf \/ PUseBuf \/ PGetBuf

SpecPoll ==
    Init /\ [][NextPoll]_vars /\ WF_vars(PUseBuf) /\ WF_vars(PGetBuf)

\* the i-th buffer published has been returned by get_buf
Returned(i) ==
    /\ i <= Len(published)
    /\ \E k \in 1..Len(returned) : returned[k] = published[i].tag

\* C20 (as stated): when the host keeps calling use_buf and the guest keeps
\* calling get_buf, every buffer add_inbuf published is eventually completed
\* and returned by get_buf.
C20_PollingProgress ==
    \A i \in 1..MaxPub : (Len(published) >= i) ~> Returned(i)

NextPollOutstanding == PAddInbuf \/ PUseBuf \/ PGetOutstanding

SpecPollOutstanding ==
    /\ Init /\ [][NextPollOutstanding]_vars
    /\ WF_vars(PUseBuf) /\ WF_vars(PGetOutstanding)

\* there every published buffer is completed and returned
C20_WhenOutstanding ==
    \A i \in 1..MaxPub :
        (Len(published) >= i) ~> (Returned(i) /\ host.used_idx >= i)

====
